---- MODULE Spec2Model ----
(***************************************************************************)
(* Governance middleware and model routes of the Watsonx Innovation Hub:   *)
(* the middleware chains of routes/models, GovernanceMiddleware with its   *)
(* rule lookups, the wrapped res.send that starts the audit write, the     *)
(* global error handler, and the audit_logs / governance_rules tables.     *)
(***************************************************************************)
EXTENDS Integers, Sequences, FiniteSets, TLC

(* ------------------------------ bounds -------------------------------- *)

\* number of requests the server receives in one behaviour
NumReqs == 1
\* largest number of rows of the governance_rules table
MaxRules == 2

\* the same two bounds of the specification with concurrent requests
NumConcReqs == 2
MaxConcRules == 1

(* --------------------------- program constants ------------------------ *)

\* bias scores and thresholds are in tenths (0.8 is 8)
DefaultThreshold == 8

\* values Math.random() can take, in tenths: below, between and above the
\* thresholds in use
Scores == {5, 7, 9}

\* config.threshold of a bias rule; 0 stands for a missing (or zero, equally
\* falsy) threshold
Thresholds == {0, 6}

Reqs == 1 .. NumReqs

Routes == {"predict", "generate-text", "deploy", "train"}

RuleTypes == {"bias_detection", "compliance", "explainability"}

\* is_active and module_ids of a rule ('[]' is the global scope): active and
\* global, active and scoped to the module of the requests, active and scoped
\* to another module, inactive
Visibilities ==
    { [is_active |-> TRUE, module_ids |-> {}],
      [is_active |-> TRUE, module_ids |-> {"m1"}],
      [is_active |-> TRUE, module_ids |-> {"m2"}],
      [is_active |-> FALSE, module_ids |-> {}] }

(* ------------------------- governance_rules --------------------------- *)

BiasConfigs ==
    [protectedAttribute : {"gender"}, threshold : Thresholds,
     blockOnFailure : BOOLEAN, allowedRegions : {{}},
     allowedClassifications : {{}}, required : {FALSE}]

ComplianceConfigs ==
    [protectedAttribute : {"none"}, threshold : {0},
     blockOnFailure : BOOLEAN, allowedRegions : {{"US"}},
     allowedClassifications : {{}}, required : {FALSE}]
    \cup
    [protectedAttribute : {"none"}, threshold : {0},
     blockOnFailure : BOOLEAN, allowedRegions : {{}},
     allowedClassifications : {{"internal"}}, required : {FALSE}]

ExplainConfigs ==
    [protectedAttribute : {"none"}, threshold : {0},
     blockOnFailure : {FALSE}, allowedRegions : {{}},
     allowedClassifications : {{}}, required : BOOLEAN]

ConfigsOf(type) ==
    CASE type = "bias_detection" -> BiasConfigs
      [] type = "compliance" -> ComplianceConfigs
      [] OTHER -> ExplainConfigs

\* a row of governance_rules without its id
RuleRows ==
    UNION { { [type |-> t, is_active |-> v.is_active,
               module_ids |-> v.module_ids, config |-> c]
              : v \in Visibilities, c \in ConfigsOf(t) } : t \in RuleTypes }

RECURSIVE TablesOfLen(_)
TablesOfLen(n) ==
    IF n = 0 THEN {<<>>}
    ELSE { Append(t, row) : t \in TablesOfLen(n - 1), row \in RuleRows }

RuleTables(m) == UNION { TablesOfLen(n) : n \in 0 .. m }

(* ------------------------------ requests ------------------------------ *)

\* req.body.input: absent, or the set of its truthy attributes
BodyInputs ==
    { [present |-> FALSE, attrs |-> {}],
      [present |-> TRUE, attrs |-> {}],
      [present |-> TRUE, attrs |-> {"gender"}] }

DefaultBody ==
    [modelId |-> FALSE, generateExplanation |-> FALSE,
     input |-> [present |-> TRUE, attrs |-> {}],
     dataClassification |-> "internal", userLocation |-> "US"]

\* the action requirePermission('models', _) is given on each route
RequiredAction(route) ==
    IF route \in {"predict", "generate-text"} THEN "execute" ELSE "create"

PredictBodies ==
    [modelId : BOOLEAN, generateExplanation : BOOLEAN, input : BodyInputs,
     dataClassification : {"internal"}, userLocation : {"US"}]

GenerateTextBodies ==
    [modelId : {FALSE}, generateExplanation : {FALSE},
     input : {[present |-> TRUE, attrs |-> {}]},
     dataClassification : {"internal", "restricted"},
     userLocation : {"US", "CN"}]

BodiesOf(route) ==
    CASE route = "predict" -> PredictBodies
      [] route = "generate-text" -> GenerateTextBodies
      [] OTHER -> {DefaultBody}

\* requests of an authenticated and permitted caller, with every body
PermittedRequests ==
    UNION { [route : {rt}, moduleId : {"m1"}, token : {"valid"},
             perms : {{RequiredAction(rt)}}, body : BodiesOf(rt)]
            : rt \in Routes }

\* the bodies of the requests that fail authentication or authorisation: on
\* predict also one that names a model, which the governance checks would
\* take up
RejectedBodiesOf(route) ==
    IF route = "predict"
    THEN {DefaultBody, [DefaultBody EXCEPT !.modelId = TRUE]}
    ELSE {DefaultBody}

\* requests that fail authentication or authorisation
RejectedRequests ==
    UNION { [route : {rt}, moduleId : {"m1"}, token : {"missing", "invalid"},
             perms : {{}}, body : RejectedBodiesOf(rt)]
            \cup
            [route : {rt}, moduleId : {"m1"}, token : {"valid"},
             perms : {{"read"}}, body : RejectedBodiesOf(rt)]
            : rt \in Routes }

Requests == PermittedRequests \cup RejectedRequests

\* the requests and rule tables of the specification with concurrent
\* requests: permitted inference calls that every check applies to, and
\* tables of active global rules
ConcRequests ==
    { q \in PermittedRequests :
        /\ q.route \in {"predict", "generate-text"}
        /\ q.route = "predict" =>
              (q.body.modelId /\ "gender" \in q.body.input.attrs) }

RECURSIVE ConcTablesOfLen(_)
ConcTablesOfLen(n) ==
    IF n = 0 THEN {<<>>}
    ELSE { Append(t, row) :
             t \in ConcTablesOfLen(n - 1),
             row \in { w \in RuleRows : w.is_active /\ w.module_ids = {} } }

ConcRuleTables == UNION { ConcTablesOfLen(n) : n \in 0 .. MaxConcRules }

(* ------------------------- pure helper functions ---------------------- *)

\* RulesQueryFrom without the is_active = true condition
RECURSIVE RulesQueryFrom_IgnoresActive(_, _, _, _)
RulesQueryFrom_IgnoresActive(table, type, moduleId, i) ==
    IF i > Len(table) THEN <<>>
    ELSE (IF /\ table[i].type = type
             /\ (moduleId \in table[i].module_ids \/ table[i].module_ids = {})
          THEN <<i>> ELSE <<>>)
         \o RulesQueryFrom_IgnoresActive(table, type, moduleId, i + 1)

RECURSIVE RulesQueryFrom(_, _, _, _)
RulesQueryFrom(table, type, moduleId, i) ==
    IF i > Len(table) THEN <<>>
    ELSE (IF /\ table[i].type = type
             /\ table[i].is_active
             /\ (moduleId \in table[i].module_ids \/ table[i].module_ids = {})
          THEN <<i>> ELSE <<>>)
         \o RulesQueryFrom(table, type, moduleId, i + 1)

\* SELECT * FROM governance_rules WHERE type = .. AND is_active = true AND
\* (module_ids @> [moduleId] OR module_ids = '[]'): the ids of the rows, in
\* table order; the id of a rule is its position in the table
RulesQuery(table, type, moduleId) == RulesQueryFrom(table, type, moduleId, 1)

\* passed of performBiasCheck: reading input[protectedAttribute] of an absent
\* input throws, and the catch returns passed: false
performBiasCheck(input, config, score) ==
    IF ~input.present THEN FALSE
    ELSE IF config.protectedAttribute \notin input.attrs THEN TRUE
    ELSE score >= (IF config.threshold = 0 THEN DefaultThreshold
                   ELSE config.threshold)

\* performComplianceCheck without the check of the data classification
performComplianceCheck_RegionOnly(dataClassification, userLocation, config) ==
    IF config.allowedRegions # {} /\ userLocation \notin config.allowedRegions
    THEN FALSE
    ELSE TRUE

\* passed of performComplianceCheck
performComplianceCheck(dataClassification, userLocation, config) ==
    IF config.allowedRegions # {} /\ userLocation \notin config.allowedRegions
    THEN FALSE
    ELSE IF /\ config.allowedClassifications # {}
            /\ dataClassification \notin config.allowedClassifications
    THEN FALSE
    ELSE TRUE

GovernanceResult(ruleId, passed) ==
    [ruleId |-> ruleId, status |-> IF passed THEN "passed" ELSE "failed"]

\* the loop of checkBias without the return that blocks
RECURSIVE BiasLoop_NeverBlocks(_, _, _, _, _, _)
BiasLoop_NeverBlocks(table, rows, k, input, scores, acc) ==
    IF k > Len(rows) THEN [results |-> acc, blocked |-> FALSE]
    ELSE LET config == table[rows[k]].config
             passed == performBiasCheck(input, config, scores[k])
             pushed == Append(acc, GovernanceResult(rows[k], passed))
         IN  BiasLoop_NeverBlocks(table, rows, k + 1, input, scores, pushed)

\* the loop of checkBias blocking on every failed check, whatever the
\* blockOnFailure of the rule
RECURSIVE BiasLoop_BlocksOnAnyFailure(_, _, _, _, _, _)
BiasLoop_BlocksOnAnyFailure(table, rows, k, input, scores, acc) ==
    IF k > Len(rows) THEN [results |-> acc, blocked |-> FALSE]
    ELSE LET config == table[rows[k]].config
             passed == performBiasCheck(input, config, scores[k])
             pushed == Append(acc, GovernanceResult(rows[k], passed))
         IN  IF ~passed
             THEN [results |-> pushed, blocked |-> TRUE]
             ELSE BiasLoop_BlocksOnAnyFailure(table, rows, k + 1, input,
                                              scores, pushed)

\* the loop of checkBias going through all the rows before it blocks
RECURSIVE BiasLoop_EvaluatesAll(_, _, _, _, _, _)
BiasLoop_EvaluatesAll(table, rows, k, input, scores, acc) ==
    IF k > Len(rows)
    THEN [results |-> acc,
          blocked |-> \E j \in 1 .. Len(acc) :
                         /\ acc[j].status = "failed"
                         /\ table[acc[j].ruleId].config.blockOnFailure]
    ELSE LET config == table[rows[k]].config
             passed == performBiasCheck(input, config, scores[k])
             pushed == Append(acc, GovernanceResult(rows[k], passed))
         IN  BiasLoop_EvaluatesAll(table, rows, k + 1, input, scores, pushed)

\* the for loop of checkBias over the rows of the lookup, from row k on:
\* the results pushed so far and whether a rule blocked
RECURSIVE BiasLoop(_, _, _, _, _, _)
BiasLoop(table, rows, k, input, scores, acc) ==
    IF k > Len(rows) THEN [results |-> acc, blocked |-> FALSE]
    ELSE LET config == table[rows[k]].config
             passed == performBiasCheck(input, config, scores[k])
             pushed == Append(acc, GovernanceResult(rows[k], passed))
         IN  IF ~passed /\ config.blockOnFailure
             THEN [results |-> pushed, blocked |-> TRUE]
             ELSE BiasLoop(table, rows, k + 1, input, scores, pushed)

\* the for loop of checkCompliance
RECURSIVE ComplianceLoop(_, _, _, _, _)
ComplianceLoop(table, rows, k, body, acc) ==
    IF k > Len(rows) THEN [results |-> acc, blocked |-> FALSE]
    ELSE LET config == table[rows[k]].config
             passed == performComplianceCheck(body.dataClassification,
                                              body.userLocation, config)
             pushed == Append(acc, GovernanceResult(rows[k], passed))
         IN  IF ~passed /\ config.blockOnFailure
             THEN [results |-> pushed, blocked |-> TRUE]
             ELSE ComplianceLoop(table, rows, k + 1, body, pushed)

\* the for loop of requireExplanation: the ids of the rows it visited and
\* whether one of them blocked
RECURSIVE ExplanationLoop(_, _, _, _, _)
ExplanationLoop(table, rows, k, body, visited) ==
    IF k > Len(rows) THEN [visited |-> visited, blocked |-> FALSE]
    ELSE IF table[rows[k]].config.required /\ ~body.generateExplanation
         THEN [visited |-> Append(visited, rows[k]), blocked |-> TRUE]
         ELSE ExplanationLoop(table, rows, k + 1, body,
                              Append(visited, rows[k]))

\* the middleware chain of each route, ending in the route handler
Chain(route) ==
    CASE route = "predict" ->
           <<"authenticateToken", "requirePermission", "checkBias",
             "requireExplanation", "auditLog", "handler">>
      [] route = "generate-text" ->
           <<"authenticateToken", "requirePermission", "checkCompliance",
             "auditLog", "handler">>
      [] OTHER ->
           <<"authenticateToken", "requirePermission", "auditLog",
             "handler">>

\* next(): the entry of the chain that follows cur
NextInChain(route, cur) ==
    LET c == Chain(route)
        i == CHOOSE j \in 1 .. Len(c) : c[j] = cur
    IN  c[i + 1]

\* the provider method a route handler calls first
ProviderCall(route) ==
    CASE route = "predict" -> "generatePrediction"
      [] route = "generate-text" -> "generateText"
      [] route = "deploy" -> "deployModel"
      [] OTHER -> "createTrainingJob"

\* error.code of the 500 response of each route handler
HandlerErrorCode(route) ==
    CASE route = "predict" -> "PREDICTION_ERROR"
      [] route = "generate-text" -> "TEXT_GENERATION_ERROR"
      [] route = "deploy" -> "MODEL_DEPLOYMENT_ERROR"
      [] OTHER -> "TRAINING_START_ERROR"

(* -------------------------------- state ------------------------------- *)

VARIABLES
    rules,              \* the governance_rules table, a sequence of rows
    req,                \* req[r]: route, params, credentials and body
    pc,                 \* pc[r]: the middleware or handler step r is at
    governanceResults,  \* req.governanceResults (undefined reads as <<>>)
    biasResults,        \* the local biasResults of checkBias when it ended
    complianceResults,  \* the local complianceResults of checkCompliance
    sendWrapped,        \* res.send of r has been replaced by auditLog
    response,           \* what was sent to the caller of r
    audit,              \* the logAuditTrail call of r
    audit_logs,         \* the audit_logs table
    events,             \* history of r: rules evaluated, calls made
    logs,               \* logger.error / logger.warn calls made for r
    assessment,         \* the assessSymptoms call of the DSM service
    clients             \* pool clients r has acquired and released so far

vars == <<rules, req, pc, governanceResults, biasResults, complianceResults,
          sendWrapped, response, audit, audit_logs, events, logs, assessment,
          clients>>

NoResponse ==
    [statusCode |-> 0, code |-> "none", hasChecks |-> FALSE,
     governanceChecks |-> <<>>, explanation |-> "none"]

NoEntry ==
    [reqId |-> 0, statusCode |-> 0, data |-> "none",
     governanceResults |-> <<>>]

\* no assessSymptoms call has been made
NoAssessment == [step |-> "idle"]

Event(name, id) == [ev |-> name, id |-> id]

\* the events of evaluating the rules ids, in order
RuleEvents(type, ids) == [k \in 1 .. Len(ids) |-> Event(type, ids[k])]

Errored(r) == Len(SelectSeq(events[r], LAMBDA e : e.ev = "next(error)")) > 0

\* the server with the requests ids, each just received and about to enter
\* the middleware chain of its route
Received(ids) ==
    /\ pc = [r \in ids |-> "authenticateToken"]
    /\ governanceResults = [r \in ids |-> <<>>]
    /\ biasResults = [r \in ids |-> <<>>]
    /\ complianceResults = [r \in ids |-> <<>>]
    /\ sendWrapped = [r \in ids |-> FALSE]
    /\ response = [r \in ids |-> NoResponse]
    /\ audit = [r \in ids |-> [state |-> "idle", calls |-> 0,
                               entry |-> NoEntry]]
    /\ audit_logs = <<>>
    /\ events = [r \in ids |-> <<>>]
    /\ logs = [r \in ids |-> {}]
    /\ clients = [r \in ids |-> [acquired |-> 0, released |-> 0]]

Init ==
    /\ rules \in RuleTables(MaxRules)
    /\ req \in [Reqs -> Requests]
    /\ Received(Reqs)
    /\ assessment = NoAssessment

\* several requests in flight at once
InitConc ==
    /\ rules \in ConcRuleTables
    /\ req \in [1 .. NumConcReqs -> ConcRequests]
    /\ Received(1 .. NumConcReqs)
    /\ assessment = NoAssessment

(* ------------------------- res.json / res.send ------------------------ *)

\* res.status(statusCode).json(..) for r: res.json ends in this.send(body),
\* so a send wrapped by auditLog first calls logAuditTrail, which runs up to
\* its first await (pgPool.connect), and then the original send
Send(r, statusCode, code, hasChecks, explanation, evs) ==
    /\ response' = [response EXCEPT ![r] =
          [statusCode |-> statusCode, code |-> code, hasChecks |-> hasChecks,
           governanceChecks |-> IF hasChecks THEN governanceResults[r]
                                ELSE <<>>,
           explanation |-> explanation]]
    /\ audit' = IF sendWrapped[r]
                THEN [audit EXCEPT ![r].state = "connecting",
                                   ![r].calls = @ + 1]
                ELSE audit
    /\ events' = [events EXCEPT ![r] =
          @ \o evs
            \o (IF sendWrapped[r] THEN <<Event("logAuditTrail", 0)>>
                ELSE <<>>)
            \o <<Event("send", 0)>>]
    /\ pc' = [pc EXCEPT ![r] = "responded"]

\* next() of the middleware at cur
CallNext(r, cur) ==
    pc' = [pc EXCEPT ![r] = NextInChain(req[r].route, cur)]

\* a catch block that only logs the error and calls no next
CallNextError_Swallows(r) ==
    pc' = [pc EXCEPT ![r] = "pending"]

\* a catch block calling next() where the code calls next(error)
CallNextError_Continues(r) ==
    pc' = [pc EXCEPT ![r] = NextInChain(req[r].route, pc[r])]

\* next(error): express skips to the error handler of server.ts
CallNextError(r) ==
    pc' = [pc EXCEPT ![r] = "errorHandler"]

(* ------------------------------ middleware ---------------------------- *)

Log(r, what) == logs' = [logs EXCEPT ![r] = @ \cup {what}]

\* authenticateToken without the return before res.status(403): it answers
\* an invalid token and calls next() all the same
authenticateToken_NoReturn(r) ==
    /\ pc[r] = "authenticateToken"
    /\ \/ /\ req[r].token = "missing"
          /\ Send(r, 401, "AUTH_TOKEN_MISSING", FALSE, "none", <<>>)
          /\ UNCHANGED logs
       \/ /\ req[r].token = "invalid"
          /\ response' = [response EXCEPT ![r] =
                [statusCode |-> 403, code |-> "AUTH_TOKEN_INVALID",
                 hasChecks |-> FALSE, governanceChecks |-> <<>>,
                 explanation |-> "none"]]
          /\ events' = [events EXCEPT ![r] = Append(@, Event("send", 0))]
          /\ CallNext(r, "authenticateToken")
          /\ Log(r, "warn: invalid token")
          /\ UNCHANGED audit
       \/ /\ req[r].token = "valid"
          /\ CallNext(r, "authenticateToken")
          /\ UNCHANGED <<response, audit, events, logs>>
    /\ UNCHANGED <<assessment, clients, rules, req, governanceResults, biasResults,
                   complianceResults, sendWrapped, audit_logs>>

\* authenticateToken: 401 without a token, 403 when jwt.verify rejects it,
\* else req.user = decoded and next()
authenticateToken(r) ==
    /\ pc[r] = "authenticateToken"
    /\ \/ /\ req[r].token = "missing"
          /\ Send(r, 401, "AUTH_TOKEN_MISSING", FALSE, "none", <<>>)
          /\ UNCHANGED logs
       \/ /\ req[r].token = "invalid"
          /\ Send(r, 403, "AUTH_TOKEN_INVALID", FALSE, "none", <<>>)
          /\ Log(r, "warn: invalid token")
       \/ /\ req[r].token = "valid"
          /\ CallNext(r, "authenticateToken")
          /\ UNCHANGED <<response, audit, events, logs>>
    /\ UNCHANGED <<assessment, clients, rules, req, governanceResults, biasResults,
                   complianceResults, sendWrapped, audit_logs>>

\* requirePermission letting every authenticated user through
requirePermission_AllowsAll(r) ==
    /\ pc[r] = "requirePermission"
    /\ CallNext(r, "requirePermission")
    /\ UNCHANGED <<response, audit, events, logs>>
    /\ UNCHANGED <<assessment, clients, rules, req, governanceResults, biasResults,
                   complianceResults, sendWrapped, audit_logs>>

\* requirePermission('models', action): req.user.roles.some(role =>
\* role.permissions.some(..)), 403 AUTH_PERMISSION_DENIED without it
requirePermission(r) ==
    /\ pc[r] = "requirePermission"
    /\ IF RequiredAction(req[r].route) \in req[r].perms
       THEN /\ CallNext(r, "requirePermission")
            /\ UNCHANGED <<response, audit, events, logs>>
       ELSE /\ Send(r, 403, "AUTH_PERMISSION_DENIED", FALSE, "none", <<>>)
            /\ Log(r, "warn: permission denied")
    /\ UNCHANGED <<assessment, clients, rules, req, governanceResults, biasResults,
                   complianceResults, sendWrapped, audit_logs>>

\* a rule lookup that went through: const client = await pgPool.connect(),
\* await client.query(rulesQuery, ..), client.release()
LookupDone(r) ==
    clients' = [clients EXCEPT ![r].acquired = @ + 1, ![r].released = @ + 1]

\* a rule lookup that threw: pgPool.connect() rejected and there is no
\* client, or client.query() rejected and the catch block is entered with
\* the client still held
LookupFailed(r) ==
    \E connected \in BOOLEAN :
        clients' = [clients EXCEPT
                       ![r].acquired = @ + (IF connected THEN 1 ELSE 0)]

\* the events of the bias checks behind results, each with the bias score
\* that Math.random() gave (0 when the check returned before computing one)
BiasEvents(table, results, input, scores) ==
    [k \in 1 .. Len(results) |->
        [ev |-> "bias_detection", id |-> results[k].ruleId,
         score |-> IF /\ input.present
                      /\ table[results[k].ruleId].config.protectedAttribute
                            \in input.attrs
                   THEN scores[k] ELSE 0]]

\* checkBias keeping its results in one array shared by all requests
checkBias_SharedResults(r) ==
    /\ pc[r] = "checkBias"
    /\ \/ /\ ~req[r].body.modelId
          /\ CallNext(r, "checkBias")
          /\ UNCHANGED <<governanceResults, biasResults, response, audit,
                         events, logs, clients>>
       \/ \* pgPool.connect() or client.query() rejects
          /\ req[r].body.modelId
          /\ LookupFailed(r)
          /\ CallNextError(r)
          /\ events' = [events EXCEPT ![r] =
                           Append(@, Event("next(error)", 0))]
          /\ Log(r, "error: bias check middleware")
          /\ UNCHANGED <<governanceResults, biasResults, response, audit>>
       \/ /\ req[r].body.modelId
          /\ LookupDone(r)
          /\ LET rows == RulesQuery(rules, "bias_detection", req[r].moduleId)
             IN  \E scores \in [1 .. Len(rows) -> Scores] :
                  LET loop == BiasLoop(rules, rows, 1, req[r].body.input,
                                       scores, <<>>)
                      evs == BiasEvents(rules, loop.results,
                                        req[r].body.input, scores)
                  IN  /\ biasResults' =
                            [biasResults EXCEPT ![r] = loop.results]
                      /\ IF loop.blocked
                         THEN /\ Send(r, 400, "GOVERNANCE_BIAS_VIOLATION",
                                      FALSE, "none", evs)
                              /\ Log(r, "warn: bias check failed")
                              /\ UNCHANGED governanceResults
                         ELSE /\ governanceResults' =
                                   [q \in DOMAIN pc |->
                                       governanceResults[q] \o loop.results]
                              /\ events' = [events EXCEPT ![r] = @ \o evs]
                              /\ CallNext(r, "checkBias")
                              /\ UNCHANGED <<response, audit, logs>>
    /\ UNCHANGED <<assessment, rules, req, complianceResults, sendWrapped,
                   audit_logs>>

\* checkBias reading modelId from req.params, where the route always has it
checkBias_UsesParams(r) ==
    /\ pc[r] = "checkBias"
    /\ \/ /\ FALSE
          /\ CallNext(r, "checkBias")
          /\ UNCHANGED <<governanceResults, biasResults, response, audit,
                         events, logs, clients>>
       \/ \* pgPool.connect() or client.query() rejects
          /\ TRUE
          /\ LookupFailed(r)
          /\ CallNextError(r)
          /\ events' = [events EXCEPT ![r] =
                           Append(@, Event("next(error)", 0))]
          /\ Log(r, "error: bias check middleware")
          /\ UNCHANGED <<governanceResults, biasResults, response, audit>>
       \/ /\ TRUE
          /\ LookupDone(r)
          /\ LET rows == RulesQuery(rules, "bias_detection", req[r].moduleId)
             IN  \E scores \in [1 .. Len(rows) -> Scores] :
                  LET loop == BiasLoop(rules, rows, 1, req[r].body.input,
                                       scores, <<>>)
                      evs == BiasEvents(rules, loop.results,
                                        req[r].body.input, scores)
                  IN  /\ biasResults' =
                            [biasResults EXCEPT ![r] = loop.results]
                      /\ IF loop.blocked
                         THEN /\ Send(r, 400, "GOVERNANCE_BIAS_VIOLATION",
                                      FALSE, "none", evs)
                              /\ Log(r, "warn: bias check failed")
                              /\ UNCHANGED governanceResults
                         ELSE /\ governanceResults' =
                                   [governanceResults EXCEPT ![r] =
                                       @ \o loop.results]
                              /\ events' = [events EXCEPT ![r] = @ \o evs]
                              /\ CallNext(r, "checkBias")
                              /\ UNCHANGED <<response, audit, logs>>
    /\ UNCHANGED <<assessment, rules, req, complianceResults, sendWrapped,
                   audit_logs>>

\* checkBias: modelId is read from req.body; the rule lookup, the loop of
\* bias checks and the block or the merge of the results
checkBias(r) ==
    /\ pc[r] = "checkBias"
    /\ \/ /\ ~req[r].body.modelId
          /\ CallNext(r, "checkBias")
          /\ UNCHANGED <<governanceResults, biasResults, response, audit,
                         events, logs, clients>>
       \/ \* pgPool.connect() or client.query() rejects
          /\ req[r].body.modelId
          /\ LookupFailed(r)
          /\ CallNextError(r)
          /\ events' = [events EXCEPT ![r] =
                           Append(@, Event("next(error)", 0))]
          /\ Log(r, "error: bias check middleware")
          /\ UNCHANGED <<governanceResults, biasResults, response, audit>>
       \/ /\ req[r].body.modelId
          /\ LookupDone(r)
          /\ LET rows == RulesQuery(rules, "bias_detection", req[r].moduleId)
             IN  \E scores \in [1 .. Len(rows) -> Scores] :
                  LET loop == BiasLoop(rules, rows, 1, req[r].body.input,
                                       scores, <<>>)
                      evs == BiasEvents(rules, loop.results,
                                        req[r].body.input, scores)
                  IN  /\ biasResults' =
                            [biasResults EXCEPT ![r] = loop.results]
                      /\ IF loop.blocked
                         THEN /\ Send(r, 400, "GOVERNANCE_BIAS_VIOLATION",
                                      FALSE, "none", evs)
                              /\ Log(r, "warn: bias check failed")
                              /\ UNCHANGED governanceResults
                         ELSE /\ governanceResults' =
                                   [governanceResults EXCEPT ![r] =
                                       @ \o loop.results]
                              /\ events' = [events EXCEPT ![r] = @ \o evs]
                              /\ CallNext(r, "checkBias")
                              /\ UNCHANGED <<response, audit, logs>>
    /\ UNCHANGED <<assessment, rules, req, complianceResults, sendWrapped,
                   audit_logs>>

checkCompliance(r) ==
    /\ pc[r] = "checkCompliance"
    /\ \/ \* pgPool.connect() or client.query() rejects
          /\ LookupFailed(r)
          /\ CallNextError(r)
          /\ events' = [events EXCEPT ![r] =
                           Append(@, Event("next(error)", 0))]
          /\ Log(r, "error: compliance check middleware")
          /\ UNCHANGED <<governanceResults, complianceResults, response,
                         audit>>
       \/ LET rows == RulesQuery(rules, "compliance", req[r].moduleId)
              loop == ComplianceLoop(rules, rows, 1, req[r].body, <<>>)
              evs == RuleEvents("compliance",
                        [k \in 1 .. Len(loop.results) |->
                            loop.results[k].ruleId])
          IN  /\ LookupDone(r)
              /\ complianceResults' =
                    [complianceResults EXCEPT ![r] = loop.results]
              /\ IF loop.blocked
                 THEN /\ Send(r, 403, "GOVERNANCE_COMPLIANCE_VIOLATION",
                              FALSE, "none", evs)
                      /\ Log(r, "warn: compliance check failed")
                      /\ UNCHANGED governanceResults
                 ELSE /\ governanceResults' =
                           [governanceResults EXCEPT ![r] =
                               @ \o loop.results]
                      /\ events' = [events EXCEPT ![r] = @ \o evs]
                      /\ CallNext(r, "checkCompliance")
                      /\ UNCHANGED <<response, audit, logs>>
    /\ UNCHANGED <<assessment, rules, req, biasResults, sendWrapped,
                   audit_logs>>

requireExplanation(r) ==
    /\ pc[r] = "requireExplanation"
    /\ \/ /\ ~req[r].body.modelId
          /\ CallNext(r, "requireExplanation")
          /\ UNCHANGED <<response, audit, events, logs, clients>>
       \/ \* pgPool.connect() or client.query() rejects
          /\ req[r].body.modelId
          /\ LookupFailed(r)
          /\ CallNextError(r)
          /\ events' = [events EXCEPT ![r] =
                           Append(@, Event("next(error)", 0))]
          /\ Log(r, "error: explanation requirement middleware")
          /\ UNCHANGED <<response, audit>>
       \/ /\ req[r].body.modelId
          /\ LookupDone(r)
          /\ LET rows == RulesQuery(rules, "explainability", req[r].moduleId)
                 loop == ExplanationLoop(rules, rows, 1, req[r].body, <<>>)
                 evs == RuleEvents("explainability", loop.visited)
             IN  IF loop.blocked
                 THEN /\ Send(r, 400, "GOVERNANCE_EXPLANATION_REQUIRED",
                              FALSE, "none", evs)
                      /\ UNCHANGED logs
                 ELSE /\ events' = [events EXCEPT ![r] = @ \o evs]
                      /\ CallNext(r, "requireExplanation")
                      /\ UNCHANGED <<response, audit, logs>>
    /\ UNCHANGED <<assessment, rules, req, governanceResults, biasResults,
                   complianceResults, sendWrapped, audit_logs>>

auditLog(r) ==
    /\ pc[r] = "auditLog"
    /\ sendWrapped' = [sendWrapped EXCEPT ![r] = TRUE]
    /\ CallNext(r, "auditLog")
    /\ UNCHANGED <<assessment, clients, rules, req, governanceResults, biasResults,
                   complianceResults, response, audit, audit_logs, events,
                   logs>>

(* --------------------------- route handlers ---------------------------- *)

\* the predict handler calling generateExplanation after every successful
\* prediction, whatever the generateExplanation of the body
routeHandler_AlwaysExplains(r) ==
    /\ pc[r] = "handler"
    /\ LET call == <<Event(ProviderCall(req[r].route), 0)>>
       IN  \/ /\ Send(r, 500, HandlerErrorCode(req[r].route), FALSE, "none",
                      call \o <<Event("rejected", 0)>>)
              /\ Log(r, "error: handler")
           \/ /\ req[r].route = "predict"
              /\ events' = [events EXCEPT ![r] = @ \o call]
              /\ pc' = [pc EXCEPT ![r] = "handlerExplain"]
              /\ UNCHANGED <<response, audit, logs>>
           \/ /\ req[r].route # "predict"
              /\ Send(r, 200, "OK", FALSE, "none", call)
              /\ UNCHANGED logs
    /\ UNCHANGED <<assessment, clients, rules, req, governanceResults, biasResults,
                   complianceResults, sendWrapped, audit_logs>>

\* the async handler of a route up to the end of its first provider call:
\* generatePrediction, generateText, deployModel or createTrainingJob
routeHandler(r) ==
    /\ pc[r] = "handler"
    /\ LET call == <<Event(ProviderCall(req[r].route), 0)>>
       IN  \/ \* the provider call rejects (or its result is malformed)
              /\ Send(r, 500, HandlerErrorCode(req[r].route), FALSE, "none",
                      call \o <<Event("rejected", 0)>>)
              /\ Log(r, "error: handler")
           \/ /\ req[r].route = "predict"
              /\ req[r].body.generateExplanation
              /\ events' = [events EXCEPT ![r] = @ \o call]
              /\ pc' = [pc EXCEPT ![r] = "handlerExplain"]
              /\ UNCHANGED <<response, audit, logs>>
           \/ /\ req[r].route = "predict"
              /\ ~req[r].body.generateExplanation
              /\ Send(r, 200, "OK", TRUE, "null", call)
              /\ UNCHANGED logs
           \/ /\ req[r].route # "predict"
              /\ Send(r, 200, "OK", FALSE, "none", call)
              /\ UNCHANGED logs
    /\ UNCHANGED <<assessment, clients, rules, req, governanceResults, biasResults,
                   complianceResults, sendWrapped, audit_logs>>

\* routeHandlerExplain swallowing a failed generateExplanation and answering
\* with the prediction alone
routeHandlerExplain_Partial(r) ==
    /\ pc[r] = "handlerExplain"
    /\ LET call == <<Event("generateExplanation", 0)>>
       IN  \/ /\ Send(r, 200, "OK", TRUE, "null",
                      call \o <<Event("rejected", 0)>>)
              /\ Log(r, "error: handler")
           \/ /\ Send(r, 200, "OK", TRUE, "present", call)
              /\ UNCHANGED logs
    /\ UNCHANGED <<assessment, clients, rules, req, governanceResults, biasResults,
                   complianceResults, sendWrapped, audit_logs>>

\* the predict handler from the call of generateExplanation on
routeHandlerExplain(r) ==
    /\ pc[r] = "handlerExplain"
    /\ LET call == <<Event("generateExplanation", 0)>>
       IN  \/ \* generateExplanation rejects: the catch block answers
              /\ Send(r, 500, HandlerErrorCode(req[r].route), FALSE, "none",
                      call \o <<Event("rejected", 0)>>)
              /\ Log(r, "error: handler")
           \/ /\ Send(r, 200, "OK", TRUE, "present", call)
              /\ UNCHANGED logs
    /\ UNCHANGED <<assessment, clients, rules, req, governanceResults, biasResults,
                   complianceResults, sendWrapped, audit_logs>>

\* the global error handler of server.ts, reached by next(error):
\* res.status(error.status || 500).json(..)
errorHandler(r) ==
    /\ pc[r] = "errorHandler"
    /\ Send(r, 500, "INTERNAL_SERVER_ERROR", FALSE, "none", <<>>)
    /\ Log(r, "error: unhandled")
    /\ UNCHANGED <<assessment, clients, rules, req, governanceResults, biasResults,
                   complianceResults, sendWrapped, audit_logs>>

(* ----------------------------- logAuditTrail --------------------------- *)

\* logAuditTrail recording the status code of a success whatever was sent
logAuditTrailConnect_StatusOK(r) ==
    /\ audit[r].state = "connecting"
    /\ \/ /\ audit' = [audit EXCEPT
                 ![r].state = "inserting",
                 ![r].entry = [reqId |-> r,
                               statusCode |-> 200,
                               data |-> response[r].code,
                               governanceResults |-> governanceResults[r]]]
          /\ clients' = [clients EXCEPT ![r].acquired = @ + 1]
          /\ UNCHANGED logs
       \/ /\ audit' = [audit EXCEPT ![r].state = "failed"]
          /\ Log(r, "error: audit trail")
          /\ UNCHANGED clients
    /\ UNCHANGED <<assessment, rules, req, pc, governanceResults, biasResults,
                   complianceResults, sendWrapped, response, audit_logs,
                   events>>

\* logAuditTrail after await pgPool.connect(): on success it builds auditData
\* from req and res as they are now and issues the INSERT; a rejected
\* connect is caught and logged
logAuditTrailConnect(r) ==
    /\ audit[r].state = "connecting"
    /\ \/ /\ audit' = [audit EXCEPT
                 ![r].state = "inserting",
                 ![r].entry = [reqId |-> r,
                               statusCode |-> response[r].statusCode,
                               data |-> response[r].code,
                               governanceResults |-> governanceResults[r]]]
          /\ clients' = [clients EXCEPT ![r].acquired = @ + 1]
          /\ UNCHANGED logs
       \/ /\ audit' = [audit EXCEPT ![r].state = "failed"]
          /\ Log(r, "error: audit trail")
          /\ UNCHANGED clients
    /\ UNCHANGED <<assessment, rules, req, pc, governanceResults, biasResults,
                   complianceResults, sendWrapped, response, audit_logs,
                   events>>

\* logAuditTrailInsert rethrowing a failed INSERT into the response
logAuditTrailInsert_Surfaces(r) ==
    /\ audit[r].state = "inserting"
    /\ \/ /\ audit_logs' = Append(audit_logs, audit[r].entry)
          /\ audit' = [audit EXCEPT ![r].state = "written"]
          /\ clients' = [clients EXCEPT ![r].released = @ + 1]
          /\ UNCHANGED <<logs, response>>
       \/ /\ audit' = [audit EXCEPT ![r].state = "failed"]
          /\ Log(r, "error: audit trail")
          /\ response' = [response EXCEPT ![r].statusCode = 500,
                                          ![r].code = "AUDIT_ERROR"]
          /\ UNCHANGED <<audit_logs, clients>>
    /\ UNCHANGED <<assessment, rules, req, pc, governanceResults, biasResults,
                   complianceResults, sendWrapped, events>>

\* logAuditTrailInsert writing its entry over the last row of the table
logAuditTrailInsert_Overwrites(r) ==
    /\ audit[r].state = "inserting"
    /\ \/ /\ audit_logs' = IF audit_logs = <<>>
                           THEN <<audit[r].entry>>
                           ELSE [audit_logs EXCEPT ![Len(audit_logs)] =
                                    audit[r].entry]
          /\ audit' = [audit EXCEPT ![r].state = "written"]
          /\ clients' = [clients EXCEPT ![r].released = @ + 1]
          /\ UNCHANGED logs
       \/ /\ audit' = [audit EXCEPT ![r].state = "failed"]
          /\ Log(r, "error: audit trail")
          /\ UNCHANGED <<audit_logs, clients>>
    /\ UNCHANGED <<assessment, rules, req, pc, governanceResults, biasResults,
                   complianceResults, sendWrapped, response, events>>

\* logAuditTrail after await client.query(INSERT INTO audit_logs ..):
\* client.release() follows the query inside the try block, so a rejected
\* query goes to the catch block with the client still held
logAuditTrailInsert(r) ==
    /\ audit[r].state = "inserting"
    /\ \/ /\ audit_logs' = Append(audit_logs, audit[r].entry)
          /\ audit' = [audit EXCEPT ![r].state = "written"]
          /\ clients' = [clients EXCEPT ![r].released = @ + 1]
          /\ UNCHANGED logs
       \/ /\ audit' = [audit EXCEPT ![r].state = "failed"]
          /\ Log(r, "error: audit trail")
          /\ UNCHANGED <<audit_logs, clients>>
    /\ UNCHANGED <<assessment, rules, req, pc, governanceResults, biasResults,
                   complianceResults, sendWrapped, response, events>>

(* ---------------------------- specification ---------------------------- *)

Next ==
    \/ \E r \in DOMAIN pc : authenticateToken(r)
    \/ \E r \in DOMAIN pc : requirePermission(r)
    \/ \E r \in DOMAIN pc : checkBias(r)
    \/ \E r \in DOMAIN pc : checkCompliance(r)
    \/ \E r \in DOMAIN pc : requireExplanation(r)
    \/ \E r \in DOMAIN pc : auditLog(r)
    \/ \E r \in DOMAIN pc : routeHandler(r)
    \/ \E r \in DOMAIN pc : routeHandlerExplain(r)
    \/ \E r \in DOMAIN pc : errorHandler(r)
    \/ \E r \in DOMAIN pc : logAuditTrailConnect(r)
    \/ \E r \in DOMAIN pc : logAuditTrailInsert(r)

Spec == Init /\ [][Next]_vars

SpecConc == InitConc /\ [][Next]_vars

\* the steps on the way of r to its response: the middleware, the route
\* handler and the error handler
Serve(r) ==
    \/ authenticateToken(r)
    \/ requirePermission(r)
    \/ checkBias(r)
    \/ checkCompliance(r)
    \/ requireExplanation(r)
    \/ auditLog(r)
    \/ routeHandler(r)
    \/ routeHandlerExplain(r)
    \/ errorHandler(r)

\* several requests in flight, where every database and provider call awaited
\* on the way to a response eventually resolves or rejects and the event loop
\* then runs the continuation; nothing is assumed of logAuditTrail, whose
\* promise nobody awaits: its connect and its INSERT may stay pending for ever
SpecConcFair ==
    /\ InitConc
    /\ [][Next]_vars
    /\ \A r \in 1 .. NumConcReqs : WF_vars(Serve(r))

(* ------------------------- vocabulary of the claims -------------------- *)

ProviderMethods ==
    {"generatePrediction", "generateExplanation", "generateText",
     "deployModel", "createTrainingJob"}

\* how often the handler of r has called the inference provider
ProviderCallCount(r) ==
    Len(SelectSeq(events[r], LAMBDA e : e.ev \in ProviderMethods))

\* r comes from an authenticated caller with the permission of its route
Permitted(r) ==
    req[r].token = "valid" /\ RequiredAction(req[r].route) \in req[r].perms

\* rule i is active and global or scoped to the module of r
InScope(i, r) ==
    /\ rules[i].is_active
    /\ (rules[i].module_ids = {} \/ req[r].moduleId \in rules[i].module_ids)

\* the route handler of r has been or is about to be invoked
HandlerReached(r) ==
    pc[r] \in {"handler", "handlerExplain"} \/ ProviderCallCount(r) > 0

FailedAt(results, k) == results[k].status = "failed"

Blocking(results, k) == rules[results[k].ruleId].config.blockOnFailure

(* -------------------------------- C1 ----------------------------------- *)

\* C1: every call of an authenticated, permitted caller to a governed route
\* that has been answered (success, governance block or error) has invoked
\* the audit trail writer exactly once.
C1_AuditOncePerCall ==
    \A r \in DOMAIN pc :
        (pc[r] = "responded" /\ Permitted(r)) => audit[r].calls = 1

(* -------------------------------- C2 ----------------------------------- *)

ExplanationRequired(r) ==
    \E i \in 1 .. Len(rules) :
        /\ rules[i].type = "explainability"
        /\ InScope(i, r)
        /\ rules[i].config.required

\* C2: a predict request without generateExplanation, for which an active
\* explainability rule in scope requires an explanation, does not get past
\* requireExplanation: unless checkBias blocked it or a rule lookup failed
\* before, it is answered GOVERNANCE_EXPLANATION_REQUIRED and the inference
\* provider is never called for it.
C2_ExplanationRequiredBlocks ==
    \A r \in DOMAIN pc :
        ( /\ req[r].route = "predict"
          /\ Permitted(r)
          /\ ExplanationRequired(r)
          /\ ~req[r].body.generateExplanation
          /\ pc[r] \in {"auditLog", "handler", "handlerExplain", "responded"}
          /\ response[r].code \notin
                {"GOVERNANCE_BIAS_VIOLATION", "INTERNAL_SERVER_ERROR"} )
        => ( /\ response[r].code = "GOVERNANCE_EXPLANATION_REQUIRED"
             /\ ProviderCallCount(r) = 0 )

(* -------------------------------- C3 ----------------------------------- *)

\* C3: when checkBias finds the check of a rule with blockOnFailure failed,
\* the request is answered 400 GOVERNANCE_BIAS_VIOLATION, neither the route
\* handler nor the provider is reached, and the pass has produced exactly
\* one result for that rule, with status failed, as its last result.
C3_BlockingBiasFailureBlocks ==
    \A r \in DOMAIN pc :
        \A k \in 1 .. Len(biasResults[r]) :
            (FailedAt(biasResults[r], k) /\ Blocking(biasResults[r], k))
            => ( /\ pc[r] = "responded"
                 /\ response[r].statusCode = 400
                 /\ response[r].code = "GOVERNANCE_BIAS_VIOLATION"
                 /\ ~HandlerReached(r)
                 /\ ProviderCallCount(r) = 0
                 /\ k = Len(biasResults[r])
                 /\ Cardinality({ j \in 1 .. Len(biasResults[r]) :
                        biasResults[r][j].ruleId = biasResults[r][k].ruleId })
                      = 1 )

\* a blocking rule failed after another rule had been evaluated
C3_Witness ==
    \E r \in DOMAIN pc :
        /\ Len(biasResults[r]) = 2
        /\ FailedAt(biasResults[r], 2)
        /\ Blocking(biasResults[r], 2)
        /\ response[r].code = "GOVERNANCE_BIAS_VIOLATION"

(* -------------------------------- C4 ----------------------------------- *)

BlockingFailure(r) ==
    \E j \in 1 .. Len(biasResults[r]) :
        FailedAt(biasResults[r], j) /\ Blocking(biasResults[r], j)

Recorded(r, result) ==
    \E j \in 1 .. Len(governanceResults[r]) : governanceResults[r][j] = result

Disallows(i, r) ==
    \/ /\ rules[i].config.allowedRegions # {}
       /\ req[r].body.userLocation \notin rules[i].config.allowedRegions
    \/ /\ rules[i].config.allowedClassifications # {}
       /\ req[r].body.dataClassification
             \notin rules[i].config.allowedClassifications

\* an active compliance rule in scope of r has blockOnFailure and disallows
\* the location or the data classification of r
ComplianceViolation(r) ==
    \E i \in 1 .. Len(rules) :
        /\ rules[i].type = "compliance"
        /\ InScope(i, r)
        /\ rules[i].config.blockOnFailure
        /\ Disallows(i, r)

RuleIdsOf(results) == { results[k].ruleId : k \in 1 .. Len(results) }

\* C6: every rule evaluated for a request, and every rule a governance
\* result of the request names, is active and either global or scoped to the
\* module of the request.
C6_OnlyActiveInScopeEvaluated ==
    \A r \in DOMAIN pc :
        /\ \A k \in 1 .. Len(events[r]) :
              events[r][k].ev \in RuleTypes =>
                  /\ InScope(events[r][k].id, r)
                  /\ rules[events[r][k].id].type = events[r][k].ev
        /\ \A i \in RuleIdsOf(governanceResults[r])
                 \cup RuleIdsOf(biasResults[r])
                 \cup RuleIdsOf(complianceResults[r]) : InScope(i, r)

\* a rule that would have blocked is inactive or scoped to another module,
\* and the request, with another rule evaluated, was answered by the handler
C6_Witness ==
    \E r \in DOMAIN pc :
        /\ response[r].statusCode = 200
        /\ \E k \in 1 .. Len(events[r]) : events[r][k].ev \in RuleTypes
        /\ \E i \in 1 .. Len(rules) :
              /\ ~InScope(i, r)
              /\ \/ /\ rules[i].type = "explainability"
                    /\ rules[i].config.required
                    /\ req[r].route = "predict"
                    /\ req[r].body.modelId
                    /\ ~req[r].body.generateExplanation
                 \/ /\ rules[i].type = "compliance"
                    /\ rules[i].config.blockOnFailure
                    /\ req[r].route = "generate-text"
                    /\ Disallows(i, r)

(* -------------------------------- C7 ----------------------------------- *)

\* C7: in the history of every request, compliance and explainability rules
\* are evaluated before any provider call, and every bias rule is evaluated
\* after a provider call and before the audit write and the response.
C7_PreAndPostCallOrder ==
    \A r \in DOMAIN pc :
        \A k \in 1 .. Len(events[r]) :
            /\ events[r][k].ev \in {"compliance", "explainability"} =>
                  \A j \in 1 .. k : events[r][j].ev \notin ProviderMethods
            /\ events[r][k].ev = "bias_detection" =>
                  /\ \E j \in 1 .. k : events[r][j].ev \in ProviderMethods
                  /\ \A j \in 1 .. k :
                        events[r][j].ev \notin {"logAuditTrail", "send"}

(* -------------------------------- C8 ----------------------------------- *)

\* C8: the response of a request is sent no later than its audit write
\* starts, so it never waits for the write; it stays as sent while the write
\* is pending, succeeds or fails; and a failed write is logged.
C8_ResponseIndependentOfAudit ==
    /\ [](\A r \in DOMAIN pc :
            /\ audit[r].state # "idle" =>
                  (pc[r] = "responded" /\ response[r] # NoResponse)
            /\ audit[r].state = "failed" => "error: audit trail" \in logs[r])
    /\ [][\A r \in DOMAIN pc :
            response[r] # NoResponse => response'[r] = response[r]]_vars

\* the audit write of a successfully answered request failed
C8_Witness ==
    \E r \in DOMAIN pc :
        /\ audit[r].state = "failed"
        /\ response[r].statusCode = 200
        /\ "error: audit trail" \in logs[r]

(* -------------------------------- C9 ----------------------------------- *)

EvaluatedRules(r) == SelectSeq(events[r], LAMBDA e : e.ev \in RuleTypes)

\* C9: an answered request has exactly one governance result for each rule
\* evaluated for it, of every type, in order; its response carries that
\* list, and so does its audit entry.
C9_OneResultPerEvaluatedRule ==
    \A r \in DOMAIN pc :
        pc[r] = "responded" =>
            /\ Len(governanceResults[r]) = Len(EvaluatedRules(r))
            /\ \A k \in 1 .. Len(governanceResults[r]) :
                  governanceResults[r][k].ruleId = EvaluatedRules(r)[k].id
            /\ Len(EvaluatedRules(r)) > 0 =>
                  /\ response[r].hasChecks
                  /\ response[r].governanceChecks = governanceResults[r]
            /\ audit[r].state \in {"inserting", "written"} =>
                  audit[r].entry.governanceResults = governanceResults[r]

(* -------------------------------- C10 ---------------------------------- *)

\* C10: every step leaves the entries of audit_logs in place and unchanged:
\* it either leaves the table as it is or appends one entry to it.
C10_AuditLogAppendOnly ==
    [][\/ audit_logs' = audit_logs
       \/ /\ Len(audit_logs') = Len(audit_logs) + 1
          /\ SubSeq(audit_logs', 1, Len(audit_logs)) = audit_logs]_vars

\* two requests have both been audited
C10_Witness ==
    /\ Len(audit_logs) = 2
    /\ audit_logs[1].reqId # audit_logs[2].reqId

(* --------------------------------- C11 --------------------------------- *)

\* a provider call made by the handler of r was rejected
ProviderFailed(r) ==
    Len(SelectSeq(events[r], LAMBDA e : e.ev = "rejected")) > 0

\* the answer to r carries no data section: no prediction with its
\* governance checks and no explanation
NoDataSection(r) ==
    /\ ~response[r].hasChecks
    /\ response[r].governanceChecks = <<>>
    /\ response[r].explanation = "none"

MaxTextLen == 2
\* most criteria of one diagnosis
MaxCriteria == 2

\* symptom texts: strings over a blank and a letter
Texts == UNION { [1 .. n -> {" ", "a"}] : n \in 0 .. MaxTextLen }

SupportedLanguages == {"en", "sw", "fr"}
Languages == SupportedLanguages \cup {"zh"}

\* demographicInfo: absent, or present with an age
DemographicInfos ==
    {[present |-> FALSE, age |-> 0]}
        \cup { [present |-> TRUE, age |-> a] : a \in {-5, 0, 28} }

DSMSeverity == {"mild", "moderate", "severe", "unspecified"}
RiskLevel == <<"low", "moderate", "high", "imminent">>
RiskLevels == { RiskLevel[i] : i \in 1 .. Len(RiskLevel) }
Urgency == <<"routine", "expedited", "urgent", "emergent">>
RiskDimensions ==
    {"suicideRisk", "selfHarmRisk", "violenceRisk", "substanceUseRisk"}

\* symptoms.trim() is empty
IsBlank(text) == \A i \in 1 .. Len(text) : text[i] = " "

\* the validation of assessSymptoms: the error of the first failing check
ValidationFailure(request) ==
    IF IsBlank(request.symptoms) THEN "VALIDATION_ERROR"
    ELSE IF request.language \notin SupportedLanguages
         THEN "UNSUPPORTED_LANGUAGE"
    ELSE IF request.demographicInfo.present
            /\ request.demographicInfo.age < 0
         THEN "INVALID_DEMOGRAPHICS"
    ELSE "none"

AllAssessmentRequests ==
    [symptoms : Texts, language : Languages,
     demographicInfo : DemographicInfos,
     includeRiskAssessment : BOOLEAN,
     includeTreatmentRecommendations : BOOLEAN]

\* requests that fail validation, with no optional section asked for
InvalidAssessmentRequests ==
    { q \in AllAssessmentRequests :
        /\ ValidationFailure(q) # "none"
        /\ ~q.includeRiskAssessment
        /\ ~q.includeTreatmentRecommendations }

\* requests that pass validation: every combination of the two flags for one
\* text, and every text, language and age with no optional section
ValidAssessmentRequests ==
    { q \in AllAssessmentRequests :
        /\ ValidationFailure(q) = "none"
        /\ \/ /\ q.symptoms = <<"a">>
              /\ q.language = "en"
              /\ ~q.demographicInfo.present
           \/ ~q.includeRiskAssessment /\ ~q.includeTreatmentRecommendations }

AssessmentRequests == InvalidAssessmentRequests \cup ValidAssessmentRequests

\* position of a level in its order
RankIn(order, level) == CHOOSE i \in 1 .. Len(order) : order[i] = level

RiskRank(level) == RankIn(RiskLevel, level)
UrgencyRank(u) == RankIn(Urgency, u)

\* the criteria of a diagnosis: criterion k has id k and a required flag
CriteriaLists ==
    UNION { { [k \in 1 .. n |-> [id |-> k, required |-> f[k]]] :
                f \in [1 .. n -> BOOLEAN] } : n \in 0 .. MaxCriteria }
\* validateCriteria reporting a match as soon as one required criterion is met
validateCriteria_AnyRequired(evidence, criteria) ==
    LET matches == [k \in 1 .. Len(criteria) |->
                       [criteriaId |-> criteria[k].id,
                        matched |-> criteria[k].id \in evidence]]
        Required(k) == criteria[k].required
        Met(k) == matches[k].matched
        ix == [k \in 1 .. Len(criteria) |-> k]
        unmet == SelectSeq(ix, LAMBDA k : Required(k) /\ ~Met(k))
    IN  [totalCriteriaMet |-> Len(SelectSeq(ix, Met)),
         requiredCriteriaMet |->
             Len(SelectSeq(ix, LAMBDA k : Required(k) /\ Met(k))),
         criteriaMatches |-> matches,
         missingRequiredCriteria |->
             [j \in 1 .. Len(unmet) |-> criteria[unmet[j]].id],
         overallMatch |-> \/ \A k \in 1 .. Len(criteria) : ~Required(k)
                          \/ \E k \in 1 .. Len(criteria) :
                                Required(k) /\ Met(k)]

\* Criteria Validator: matches the symptom evidence (the ids of the criteria
\* it supports) against the criteria of a diagnosis
validateCriteria(evidence, criteria) ==
    LET matches == [k \in 1 .. Len(criteria) |->
                       [criteriaId |-> criteria[k].id,
                        matched |-> criteria[k].id \in evidence]]
        Required(k) == criteria[k].required
        Met(k) == matches[k].matched
        ix == [k \in 1 .. Len(criteria) |-> k]
        unmet == SelectSeq(ix, LAMBDA k : Required(k) /\ ~Met(k))
    IN  [totalCriteriaMet |-> Len(SelectSeq(ix, Met)),
         requiredCriteriaMet |->
             Len(SelectSeq(ix, LAMBDA k : Required(k) /\ Met(k))),
         criteriaMatches |-> matches,
         missingRequiredCriteria |->
             [j \in 1 .. Len(unmet) |-> criteria[unmet[j]].id],
         overallMatch |-> \A k \in 1 .. Len(criteria) :
                              Required(k) => Met(k)]

\* the higher of two risk levels
HigherRisk(a, b) == IF RiskRank(a) >= RiskRank(b) THEN a ELSE b

\* overallRisk taken from the suicide dimension alone
OverallRisk_SuicideOnly(levels) == levels.suicideRisk

\* Risk Stratification Engine: the aggregate of the four dimension levels
OverallRisk(levels) ==
    HigherRisk(HigherRisk(levels.suicideRisk, levels.selfHarmRisk),
               HigherRisk(levels.violenceRisk, levels.substanceUseRisk))

\* immediateInterventionRequired decided by the concrete plan alone
ImmediateIntervention_PlanOnly(overall, concretePlan) ==
    overall = "high" /\ concretePlan

\* immediateInterventionRequired: imminent aggregate risk, or by policy high
\* aggregate risk together with an identified concrete plan
ImmediateIntervention(overall, concretePlan) ==
    \/ overall = "imminent"
    \/ overall = "high" /\ concretePlan

\* the transition table of the Urgency Resolver: a row per severity, a
\* column per aggregate risk in the order of RiskLevel
UrgencyTable ==
    [mild        |-> <<"routine", "routine", "expedited", "emergent">>,
     moderate    |-> <<"routine", "expedited", "urgent", "emergent">>,
     severe      |-> <<"expedited", "urgent", "urgent", "emergent">>,
     unspecified |-> <<"routine", "expedited", "urgent", "emergent">>]

\* urgency from severity alone, used when risk assessment was skipped
SeverityFallback ==
    [mild |-> "routine", moderate |-> "expedited", severe |-> "urgent",
     unspecified |-> "routine"]

\* UrgencyResolver that never consults the aggregate risk
UrgencyResolver_SeverityOnly(severity, riskAssessed, overallRisk) ==
    SeverityFallback[severity]

\* Urgency Resolver: severity and aggregate risk (when computed) to urgency
UrgencyResolver(severity, riskAssessed, overallRisk) ==
    IF riskAssessed THEN UrgencyTable[severity][RiskRank(overallRisk)]
    ELSE SeverityFallback[severity]

\* followUpRecommended decided by the urgency alone
FollowUpRecommended_UrgencyOnly(urgency, riskAssessed, levels) ==
    UrgencyRank(urgency) >= UrgencyRank("expedited")

\* followUpRecommended: urgency at or above expedited, or any assessed
\* risk dimension at or above moderate
FollowUpRecommended(urgency, riskAssessed, levels) ==
    \/ UrgencyRank(urgency) >= UrgencyRank("expedited")
    \/ /\ riskAssessed
       /\ \E d \in RiskDimensions :
              RiskRank(levels[d]) >= RiskRank("moderate")
\* a treatment recommendation
Recommendation(type, priority, urgency) ==
    [type |-> type, priority |-> priority, urgency |-> urgency]

\* Treatment Recommendation Generator: the recommendations of a severity in
\* descending priority, headed by crisis intervention when immediate
\* intervention is required
generateTreatmentRecommendations(severity, immediate) ==
    (IF immediate
     THEN <<Recommendation("crisis_intervention", "urgent", "emergent")>>
     ELSE <<>>)
    \o (IF severity = "severe"
        THEN <<Recommendation("psychotherapy", "high", "urgent"),
               Recommendation("medication", "high", "urgent"),
               Recommendation("psychosocial", "medium", "routine")>>
        ELSE IF severity = "moderate"
        THEN <<Recommendation("psychotherapy", "high", "expedited"),
               Recommendation("medication", "medium", "routine"),
               Recommendation("psychosocial", "medium", "routine")>>
        ELSE <<Recommendation("psychotherapy", "medium", "routine"),
               Recommendation("education", "low", "routine")>>)

NoRiskAssessment == [assessed |-> FALSE]

\* an assessSymptoms call that has just been made with request
NewAssessment(request) ==
    [step |-> "validate", request |-> request, error |-> "none",
     code |-> "none", providerCalls |-> 0, diagnoses |-> <<>>,
     riskAssessment |-> NoRiskAssessment, urgencyLevel |-> "unset",
     followUpRecommended |-> FALSE, treatmentRecommendations |-> <<>>]

\* the call ends with an error and without any section of a response
Reject(error, code) ==
    [assessment EXCEPT !.step = "rejected", !.error = error, !.code = code,
                       !.diagnoses = <<>>,
                       !.riskAssessment = NoRiskAssessment,
                       !.urgencyLevel = "unset",
                       !.treatmentRecommendations = <<>>]

Governance == <<rules, req, pc, governanceResults, biasResults,
                complianceResults, sendWrapped, response, audit, audit_logs,
                events, logs, clients>>

InitDSM ==
    /\ rules = <<>>
    /\ req = <<>>
    /\ Received({})
    /\ assessment \in { NewAssessment(q) : q \in AssessmentRequests }

\* validation that lets a request in an unsupported language through
assessSymptoms_AnyLanguage ==
    /\ assessment.step = "validate"
    /\ LET failure == ValidationFailure(assessment.request)
       IN  assessment' =
             IF failure \in {"none", "UNSUPPORTED_LANGUAGE"}
             THEN [assessment EXCEPT !.step = "classify"]
             ELSE Reject("ValidationError", failure)
    /\ UNCHANGED Governance

\* Assessment Orchestrator: validation of the inbound request
assessSymptoms ==
    /\ assessment.step = "validate"
    /\ LET failure == ValidationFailure(assessment.request)
       IN  assessment' =
             IF failure = "none"
             THEN [assessment EXCEPT !.step = "classify"]
             ELSE Reject("ValidationError", failure)
    /\ UNCHANGED Governance

\* the call to the Inference Provider for the primary classification: it
\* fails, or returns a diagnosis candidate with its severity and criteria
classifySymptoms ==
    /\ assessment.step = "classify"
    /\ LET called == [assessment EXCEPT !.providerCalls = @ + 1]
       IN  \/ assessment' =
                [Reject("ServiceUnavailable", "SERVICE_UNAVAILABLE")
                    EXCEPT !.providerCalls = called.providerCalls]
           \/ \E severity \in DSMSeverity, criteria \in CriteriaLists :
                assessment' =
                  [called EXCEPT
                     !.step = "criteria",
                     !.diagnoses = <<[severity |-> severity,
                                      criteria |-> criteria]>>]
    /\ UNCHANGED Governance

\* the orchestrator attaches the Criteria Validator's result to each
\* candidate; evidence is what was extracted from the symptom text
validateCandidates ==
    /\ assessment.step = "criteria"
    /\ \E evidence \in SUBSET (1 .. Len(assessment.diagnoses[1].criteria)) :
         assessment' =
           [assessment EXCEPT
              !.step = IF assessment.request.includeRiskAssessment
                       THEN "risk" ELSE "urgency",
              !.diagnoses =
                 [k \in 1 .. Len(assessment.diagnoses) |->
                    [severity |-> assessment.diagnoses[k].severity,
                     criteria |-> assessment.diagnoses[k].criteria,
                     validation |->
                        validateCriteria(evidence,
                                         assessment.diagnoses[k].criteria)]]]
    /\ UNCHANGED Governance
\* Risk Stratification Engine, run when the request asks for it: the provider
\* call for the risk signals fails, or yields the four dimension levels
assessRisk ==
    /\ assessment.step = "risk"
    /\ LET called == [assessment EXCEPT !.providerCalls = @ + 1]
       IN  \/ assessment' =
                [Reject("ServiceUnavailable", "SERVICE_UNAVAILABLE")
                    EXCEPT !.providerCalls = called.providerCalls]
           \/ \E levels \in [RiskDimensions -> RiskLevels],
                 concretePlan \in BOOLEAN :
                LET overall == OverallRisk(levels)
                IN  assessment' =
                      [called EXCEPT
                         !.step = "urgency",
                         !.riskAssessment =
                            [assessed |-> TRUE,
                             levels |-> levels,
                             overallRisk |-> overall,
                             immediateInterventionRequired |->
                                ImmediateIntervention(overall,
                                                      concretePlan)]]
    /\ UNCHANGED Governance

\* the orchestrator sets the urgency from the top diagnosis and the aggregate
\* risk, and from them followUpRecommended
resolveUrgency ==
    /\ assessment.step = "urgency"
    /\ LET risk == assessment.riskAssessment
           overall == IF risk.assessed THEN risk.overallRisk ELSE "low"
           levels == IF risk.assessed THEN risk.levels
                     ELSE [d \in RiskDimensions |-> "low"]
           urgency == UrgencyResolver(assessment.diagnoses[1].severity,
                                      risk.assessed, overall)
       IN  assessment' =
             [assessment EXCEPT
                !.step = IF assessment.request.includeTreatmentRecommendations
                         THEN "treatment" ELSE "assemble",
                !.urgencyLevel = urgency,
                !.followUpRecommended =
                    FollowUpRecommended(urgency, risk.assessed, levels)]
    /\ UNCHANGED Governance

\* the orchestrator attaches the treatment recommendations asked for
recommendTreatment ==
    /\ assessment.step = "treatment"
    /\ assessment' =
         [assessment EXCEPT
            !.step = "assemble",
            !.treatmentRecommendations =
                generateTreatmentRecommendations(
                    assessment.diagnoses[1].severity,
                    /\ assessment.riskAssessment.assessed
                    /\ assessment.riskAssessment
                           .immediateInterventionRequired)]
    /\ UNCHANGED Governance

\* the assembled response is returned to the caller
respond ==
    /\ assessment.step = "assemble"
    /\ assessment' = [assessment EXCEPT !.step = "done"]
    /\ UNCHANGED Governance

NextDSM ==
    \/ assessSymptoms
    \/ classifySymptoms
    \/ validateCandidates
    \/ assessRisk
    \/ resolveUrgency
    \/ recommendTreatment
    \/ respond

SpecDSM == InitDSM /\ [][NextDSM]_vars

(* --------------------------- C12 .. C17 (DSM) -------------------------- *)

\* an assessSymptoms call is in progress or has ended
Assessing == assessment.step # "idle"

\* the urgency has been set on the response being assembled
UrgencySet == Assessing /\ assessment.urgencyLevel # "unset"

RiskAssessed == Assessing /\ assessment.riskAssessment.assessed

\* the (severity, aggregate risk, urgency) triples of the urgency table
UrgencyTriples ==
    { <<"mild", "low", "routine">>, <<"mild", "moderate", "routine">>,
      <<"mild", "high", "expedited">>, <<"mild", "imminent", "emergent">>,
      <<"moderate", "low", "routine">>,
      <<"moderate", "moderate", "expedited">>,
      <<"moderate", "high", "urgent">>,
      <<"moderate", "imminent", "emergent">>,
      <<"severe", "low", "expedited">>, <<"severe", "moderate", "urgent">>,
      <<"severe", "high", "urgent">>, <<"severe", "imminent", "emergent">>,
      <<"unspecified", "low", "routine">>,
      <<"unspecified", "moderate", "expedited">>,
      <<"unspecified", "high", "urgent">>,
      <<"unspecified", "imminent", "emergent">> }

\* C12: for every (severity, aggregate risk) pair the resolved urgency is
\* the one of the table, imminent risk always yields emergent urgency, and
\* once set on a response the urgency never changes.
C12_UrgencyMatchesTable ==
    /\ [](UrgencySet /\ RiskAssessed =>
            /\ <<assessment.diagnoses[1].severity,
                 assessment.riskAssessment.overallRisk,
                 assessment.urgencyLevel>> \in UrgencyTriples
            /\ (assessment.riskAssessment.overallRisk = "imminent"
                    => assessment.urgencyLevel = "emergent"))
    /\ [][UrgencySet =>
            assessment'.urgencyLevel = assessment.urgencyLevel]_vars

\* a returned response of a mild diagnosis under imminent risk
C12_Witness ==
    /\ Assessing
    /\ assessment.step = "done"
    /\ RiskAssessed
    /\ assessment.diagnoses[1].severity = "mild"
    /\ assessment.riskAssessment.overallRisk = "imminent"
    /\ assessment.urgencyLevel = "emergent"

\* C13: in every risk assessment immediateInterventionRequired is true
\* whenever the aggregate risk is imminent.
C13_ImminentRequiresIntervention ==
    RiskAssessed /\ assessment.riskAssessment.overallRisk = "imminent"
        => assessment.riskAssessment.immediateInterventionRequired

\* a returned response with imminent aggregate risk
C13_Witness ==
    /\ RiskAssessed
    /\ assessment.step = "done"
    /\ assessment.riskAssessment.overallRisk = "imminent"
    /\ assessment.riskAssessment.immediateInterventionRequired

\* C14: the aggregate risk is the maximum of the four dimension levels under
\* low < moderate < high < imminent: it is the level of some dimension and no
\* dimension lies above it.
C14_OverallRiskIsMaximum ==
    RiskAssessed =>
        LET risk == assessment.riskAssessment
            RankOf(level) ==
                CASE level = "low" -> 1 [] level = "moderate" -> 2
                  [] level = "high" -> 3 [] level = "imminent" -> 4
        IN  /\ \E d \in RiskDimensions : risk.levels[d] = risk.overallRisk
            /\ \A d \in RiskDimensions :
                   RankOf(risk.levels[d]) <= RankOf(risk.overallRisk)

\* an assessment whose highest level is not the suicide dimension's
C14_Witness ==
    /\ RiskAssessed
    /\ assessment.riskAssessment.levels.suicideRisk = "low"
    /\ assessment.riskAssessment.levels.selfHarmRisk = "moderate"
    /\ assessment.riskAssessment.levels.violenceRisk = "high"
    /\ assessment.riskAssessment.overallRisk = "high"
\* the request has empty or whitespace-only symptom text, a language outside
\* the supported set, or a negative supplied age
InvalidRequest ==
    LET q == assessment.request
    IN  \/ \A i \in DOMAIN q.symptoms : q.symptoms[i] = " "
        \/ q.language \notin {"en", "sw", "fr"}
        \/ q.demographicInfo.present /\ q.demographicInfo.age < 0

\* C15: a request with blank symptom text, an unsupported language or a
\* negative age is rejected with a ValidationError before any call to the
\* inference provider is made.
C15_InvalidRequestRejected ==
    Assessing /\ InvalidRequest =>
        /\ assessment.providerCalls = 0
        /\ assessment.step \in {"validate", "rejected"}
        /\ assessment.step = "rejected" =>
               assessment.error = "ValidationError"

\* a whitespace-only text in an unsupported language has been rejected
C15_Witness ==
    /\ Assessing
    /\ assessment.step = "rejected"
    /\ assessment.request.symptoms = <<" ", " ">>
    /\ assessment.request.language = "zh"
    /\ assessment.error = "ValidationError"
    /\ assessment.providerCalls = 0

\* the criteria validations attached to the diagnoses of the call
Validated ==
    IF Assessing /\ assessment.step \notin {"validate", "classify",
                                            "criteria", "rejected"}
    THEN { k \in 1 .. Len(assessment.diagnoses) : TRUE }
    ELSE {}

\* C16: overallMatch is true iff the required-criteria-met count equals the
\* number of required criteria; when it is false, missingRequiredCriteria is
\* exactly the list of the unmet required criterion ids.
C16_OverallMatchIffAllRequiredMet ==
    \A k \in Validated :
        LET criteria == assessment.diagnoses[k].criteria
            v == assessment.diagnoses[k].validation
            required == { j \in DOMAIN criteria : criteria[j].required }
            unmet == { criteria[j].id : j \in
                        { i \in required :
                            ~v.criteriaMatches[i].matched } }
            missing == v.missingRequiredCriteria
        IN  /\ v.overallMatch <=>
                  v.requiredCriteriaMet = Cardinality(required)
            /\ ~v.overallMatch =>
                  /\ { missing[j] : j \in DOMAIN missing } = unmet
                  /\ Len(missing) = Cardinality(unmet)

\* a partial match: two required criteria of which the second is unmet
C16_Witness ==
    \E k \in Validated :
        LET criteria == assessment.diagnoses[k].criteria
            v == assessment.diagnoses[k].validation
        IN  /\ Len(criteria) = 2
            /\ criteria[1].required /\ criteria[2].required
            /\ v.requiredCriteriaMet = 1
            /\ ~v.overallMatch
            /\ v.missingRequiredCriteria = <<2>>

\* C17: followUpRecommended is true whenever the urgency is expedited, urgent
\* or emergent, or any risk-dimension level is moderate, high or imminent.
C17_FollowUpRecommended ==
    UrgencySet =>
        (( \/ assessment.urgencyLevel \in {"expedited", "urgent", "emergent"}
           \/ /\ RiskAssessed
              /\ \E d \in RiskDimensions :
                     assessment.riskAssessment.levels[d]
                         \in {"moderate", "high", "imminent"} )
         => assessment.followUpRecommended)

\* a routine response with a moderate risk dimension recommends follow-up
C17_Witness ==
    /\ UrgencySet
    /\ assessment.step = "done"
    /\ assessment.urgencyLevel = "routine"
    /\ RiskAssessed
    /\ assessment.riskAssessment.levels.substanceUseRisk = "moderate"
    /\ assessment.followUpRecommended

(* --------------------------------- C19 --------------------------------- *)

\* the governance results that the passes of r itself have produced
OwnResults(r) == biasResults[r] \o complianceResults[r]

LookedUp(r, type) ==
    { i \in DOMAIN rules : rules[i].type = type /\ InScope(i, r) }

\* C20: whenever the body of a predict request carries no modelId, checkBias
\* and requireExplanation call next() without looking up or evaluating any
\* rule and without sending a response, whatever rules are active: no bias or
\* explainability rule is evaluated for the request, no lookup fails for it,
\* it is never answered by either middleware, and a permitted request
\* reaches the route handler.
C20_NoBodyModelIdSkipsChecks ==
    \A r \in DOMAIN pc :
        req[r].route = "predict" /\ ~req[r].body.modelId =>
            /\ \A k \in DOMAIN events[r] :
                   events[r][k].ev \notin {"bias_detection", "explainability"}
            /\ ~Errored(r)
            /\ pc[r] # "errorHandler"
            /\ biasResults[r] = <<>>
            /\ governanceResults[r] = <<>>
            /\ response[r].code \notin
                   {"GOVERNANCE_BIAS_VIOLATION",
                    "GOVERNANCE_EXPLANATION_REQUIRED",
                    "INTERNAL_SERVER_ERROR"}
            /\ (Permitted(r) /\ pc[r] = "responded" => HandlerReached(r))

\* a predict request without body.modelId and without generateExplanation
\* was served although a blocking bias rule on an attribute of its input and
\* a rule requiring explanations are active and in scope
C20_Witness ==
    \E r \in DOMAIN pc :
        /\ req[r].route = "predict"
        /\ ~req[r].body.modelId
        /\ ~req[r].body.generateExplanation
        /\ "gender" \in req[r].body.input.attrs
        /\ \E i \in LookedUp(r, "bias_detection") :
               rules[i].config.blockOnFailure
        /\ \E i \in LookedUp(r, "explainability") : rules[i].config.required
        /\ response[r].statusCode = 200

(* -------------------------------- C21 ---------------------------------- *)

\* the rule lookups and rule evaluations made for r
RuleLookups(r) == clients[r].acquired

RulesEvaluated(r) ==
    Len(SelectSeq(events[r], LAMBDA e : e.ev \in RuleTypes))

C22_LookupFailureForwarded ==
    /\ [](\A r \in DOMAIN pc :
            Errored(r) =>
                /\ pc[r] \in {"errorHandler", "responded"}
                /\ ~HandlerReached(r)
                /\ ProviderCallCount(r) = 0
                /\ pc[r] = "errorHandler" => response[r] = NoResponse
                /\ pc[r] = "responded" =>
                      /\ response[r].statusCode = 500
                      /\ response[r].code = "INTERNAL_SERVER_ERROR")
    /\ [][\A r \in DOMAIN pc :
            (~Errored(r) /\ Errored(r)') =>
                /\ pc[r] \in {"checkBias", "checkCompliance",
                              "requireExplanation"}
                /\ pc'[r] = "errorHandler"
                /\ response'[r] = response[r]
                /\ events'[r] = Append(events[r], Event("next(error)", 0))]_vars

\* a predict request whose rule lookup failed, answered by the error handler
C22_Witness ==
    \E r \in DOMAIN pc :
        /\ req[r].route = "predict"
        /\ Errored(r)
        /\ pc[r] = "responded"
        /\ response[r].statusCode = 500

(* -------------------------------- C23 ---------------------------------- *)

\* no governance code is running or pending for r: the request has been
\* answered and its audit write, if one was started, has ended
Quiescent(r) ==
    /\ pc[r] = "responded"
    /\ audit[r].state \in {"idle", "written", "failed"}

\* C23: every database client that governance code acquired from the pool
\* for a request (in the rule lookups of checkBias, checkCompliance and
\* requireExplanation and in logAuditTrail) has been released exactly once
\* when that code has ended, also when its query failed; no client is ever
\* released more often than it was acquired.
C23_ClientsReleased ==
    \A r \in DOMAIN pc :
        /\ clients[r].released <= clients[r].acquired
        /\ Quiescent(r) => clients[r].released = clients[r].acquired

(* -------------------------------- C24 ---------------------------------- *)

\* the bias checks made for r, in order, each with its bias score
BiasChecks(r) == SelectSeq(events[r], LAMBDA e : e.ev = "bias_detection")

\* the protected attribute of config is present in the input of r
AttributePresent(r, config) ==
    /\ req[r].body.input.present
    /\ config.protectedAttribute \in req[r].body.input.attrs

\* the threshold of a rule, 0.8 when it configures none
ThresholdOf(config) ==
    IF config.threshold = 0 THEN DefaultThreshold ELSE config.threshold

\* C24: a bias rule check returns passed whenever the protected attribute of
\* the rule is not present in the input of the request, and otherwise it
\* passes if and only if the bias score it computed is at least the threshold
\* of the rule (0.8 when the rule configures none).
C24_BiasCheckOutcome ==
    \A r \in DOMAIN pc :
        \A k \in 1 .. Len(biasResults[r]) :
            LET config == rules[biasResults[r][k].ruleId].config
            IN  /\ Len(BiasChecks(r)) = Len(biasResults[r])
                /\ biasResults[r][k].status = "passed" <=>
                      \/ ~AttributePresent(r, config)
                      \/ BiasChecks(r)[k].score >= ThresholdOf(config)

(* -------------------------------- C25 ---------------------------------- *)

\* how often the handler of r has called generateExplanation
ExplanationCallCount(r) ==
    Len(SelectSeq(events[r], LAMBDA e : e.ev = "generateExplanation"))

\* the generatePrediction call of r was made and rejected
PredictionFailed(r) ==
    \E k \in 1 .. Len(events[r]) - 1 :
        /\ events[r][k].ev = "generatePrediction"
        /\ events[r][k + 1].ev = "rejected"

\* C25: within one prediction request the provider's explanation call is
\* made at most once, only when the body asks for an explanation and only
\* directly after a prediction call that succeeded; when the body does not
\* ask for one or the prediction failed, the explanation call count is 0,
\* and a successful response without a requested explanation carries
\* explanation = null.
C25_ExplanationOnlyOnRequest ==
    \A r \in DOMAIN pc :
        /\ ExplanationCallCount(r) <= 1
        /\ \A k \in 1 .. Len(events[r]) :
              events[r][k].ev = "generateExplanation" =>
                  /\ req[r].route = "predict"
                  /\ req[r].body.generateExplanation
                  /\ k > 1
                  /\ events[r][k - 1].ev = "generatePrediction"
        /\ (~req[r].body.generateExplanation \/ PredictionFailed(r)) =>
              ExplanationCallCount(r) = 0
        /\ ( /\ req[r].route = "predict"
             /\ ~req[r].body.generateExplanation
             /\ pc[r] = "responded"
             /\ response[r].statusCode = 200 ) =>
              response[r].explanation = "null"

\* a prediction without a requested explanation, answered 200 with
\* explanation = null after the one provider call
C25_Witness ==
    \E r \in DOMAIN pc :
        /\ req[r].route = "predict"
        /\ ~req[r].body.generateExplanation
        /\ pc[r] = "responded"
        /\ response[r].statusCode = 200
        /\ response[r].explanation = "null"
        /\ ProviderCallCount(r) = 1
        /\ ExplanationCallCount(r) = 0

(* -------------------------------- C26 ---------------------------------- *)

Middlewares ==
    {"authenticateToken", "requirePermission", "checkBias",
     "checkCompliance", "requireExplanation", "auditLog"}

\* how many responses have been sent for r
SendCount(r) == Len(SelectSeq(events[r], LAMBDA e : e.ev = "send"))

\* C26: every middleware of a chain, when it runs for a request, either
\* calls next once (next() to the following entry of the chain or
\* next(error) to the error handler) and sends nothing, or sends one
\* response and calls no next, never both and never neither; no request is
\* ever sent more than one response, and none while it is still in a
\* middleware.
C26_NextOrResponse ==
    /\ [](\A r \in DOMAIN pc :
            /\ SendCount(r) <= 1
            /\ pc[r] \in Middlewares => SendCount(r) = 0
            /\ pc[r] = "responded" <=> SendCount(r) = 1)
    /\ [][\A r \in DOMAIN pc :
            (pc[r] \in Middlewares /\ <<pc[r], events[r], response[r]>>'
                                       # <<pc[r], events[r], response[r]>>) =>
                \/ /\ pc'[r] \in {NextInChain(req[r].route, pc[r]),
                                  "errorHandler"}
                   /\ SendCount(r)' = SendCount(r)
                   /\ response'[r] = response[r]
                \/ /\ pc'[r] = "responded"
                   /\ SendCount(r)' = SendCount(r) + 1]_vars

\* a request that one middleware passed on and a later one answered: the
\* bias check blocked it with the one response it got
C26_Witness ==
    \E r \in DOMAIN pc :
        /\ pc[r] = "responded"
        /\ response[r].code = "GOVERNANCE_BIAS_VIOLATION"
        /\ SendCount(r) = 1

(* -------------------------------- C27 ---------------------------------- *)

\* C27: provided every database and provider call made on its way eventually
\* returns or fails, every request entering a governed route is eventually
\* answered, and from then on it has been sent exactly one response; no
\* progress of any audit write, its own or another request's, is needed.
C27_EventuallyOneResponse ==
    \A r \in 1 .. NumConcReqs :
        <>[](pc[r] = "responded" /\ SendCount(r) = 1)

\* a request answered by its handler although its own audit write failed and
\* the audit write of another request is still waiting for its connection
C27_Witness ==
    \E r, q \in DOMAIN pc :
        /\ r # q
        /\ pc[r] = "responded"
        /\ SendCount(r) = 1
        /\ ProviderCallCount(r) > 0
        /\ audit[r].state = "failed"
        /\ audit[q].state = "connecting"

(* -------------------------------- C28 ---------------------------------- *)

\* the audit entry of r has been built (and perhaps written)
EntryBuilt(r) == audit[r].state \in {"inserting", "written"}

\* C28: for a request that reaches the route handler no audit write is
\* started before it is answered and exactly one once it is answered, be
\* the answer the 200 of a success or the 500 of a handler error; the entry
\* built for that write names the request, its status code is the status
\* code of the response that was sent, its governance results are the
\* governanceResults of the request, which are the governance checks of
\* the response wherever the response carries them, and a written entry is
\* a row of audit_logs.
C28_AuditEntryMatchesResponse ==
    \A r \in DOMAIN pc :
        HandlerReached(r) =>
            /\ pc[r] # "responded" => audit[r].calls = 0
            /\ pc[r] = "responded" =>
                  /\ audit[r].calls = 1
                  /\ response[r].statusCode \in {200, 500}
                  /\ EntryBuilt(r) =>
                        /\ audit[r].entry.reqId = r
                        /\ audit[r].entry.statusCode = response[r].statusCode
                        /\ audit[r].entry.governanceResults =
                              governanceResults[r]
                        /\ response[r].hasChecks =>
                              audit[r].entry.governanceResults =
                                 response[r].governanceChecks
                  /\ audit[r].state = "written" =>
                        \E k \in 1 .. Len(audit_logs) :
                            audit_logs[k] = audit[r].entry

\* a prediction that failed in the handler after a bias check left a result:
\* answered 500, its one audit entry written with status code 500
C28_Witness ==
    \E r \in DOMAIN pc :
        /\ HandlerReached(r)
        /\ pc[r] = "responded"
        /\ response[r].statusCode = 500
        /\ governanceResults[r] # <<>>
        /\ audit[r].state = "written"
        /\ audit[r].entry.statusCode = 500

(* -------------------------------- C29 ---------------------------------- *)

\* r was answered by a governance middleware that blocked it
GovernanceBlocked(r) ==
    /\ pc[r] = "responded"
    /\ response[r].code \in {"GOVERNANCE_BIAS_VIOLATION",
                             "GOVERNANCE_COMPLIANCE_VIOLATION",
                             "GOVERNANCE_EXPLANATION_REQUIRED"}

\* C29: governance decisions are deterministic: under one table of rules, two
\* answered requests with the same route, module id and body, neither of
\* which met a database error, are both blocked or both allowed, and their
\* bias and compliance checks gave the same sequence of results.
C29_GovernanceDeterministic ==
    \A r, q \in DOMAIN pc :
        ( /\ req[r] = req[q]
          /\ pc[r] = "responded" /\ pc[q] = "responded"
          /\ ~Errored(r) /\ ~Errored(q) ) =>
            /\ GovernanceBlocked(r) <=> GovernanceBlocked(q)
            /\ biasResults[r] = biasResults[q]
            /\ complianceResults[r] = complianceResults[q]

(* -------------------------------- C30 ---------------------------------- *)

\* results are those of a pass over rows that its last rule blocked: one
\* result for each row up to the blocking one, none for the rows after it
BlockedPass(results, rows) ==
    /\ Len(results) \in 1 .. Len(rows)
    /\ \A k \in 1 .. Len(results) :
          /\ results[k].ruleId = rows[k]
          /\ (FailedAt(results, k) /\ Blocking(results, k))
                <=> k = Len(results)

\* C30: when a rule blocks a request in checkBias or checkCompliance, the
\* rules after it in the lookup result are not evaluated (the evaluated rules
\* are the rows of the lookup up to the blocking one), and the
\* governanceResults of the request are exactly what they were before the
\* middleware ran: the results of the blocked pass are not attached.
C30_BlockedPassLeavesResults ==
    [][\A r \in DOMAIN pc :
         (pc[r] \in {"checkBias", "checkCompliance"}
             /\ pc'[r] = "responded") =>
            /\ governanceResults'[r] = governanceResults[r]
            /\ pc[r] = "checkBias" =>
                  /\ BlockedPass(biasResults'[r],
                        RulesQuery(rules, "bias_detection", req[r].moduleId))
                  /\ RulesEvaluated(r)' = Len(biasResults'[r])
            /\ pc[r] = "checkCompliance" =>
                  /\ BlockedPass(complianceResults'[r],
                        RulesQuery(rules, "compliance", req[r].moduleId))
                  /\ RulesEvaluated(r)' = Len(complianceResults'[r])]_vars

\* a lookup of two bias rules whose first rule blocked the request: one
\* rule evaluated, nothing attached to the request
C30_Witness ==
    \E r \in DOMAIN pc :
        /\ pc[r] = "responded"
        /\ response[r].code = "GOVERNANCE_BIAS_VIOLATION"
        /\ Len(RulesQuery(rules, "bias_detection", req[r].moduleId)) = 2
        /\ Len(biasResults[r]) = 1
        /\ RulesEvaluated(r) = 1
        /\ governanceResults[r] = <<>>

====
